---- MODULE Spec2Model ----
(***************************************************************************)
(* The ledger dashboard of jatin-tres/Data-cleaner, in its three revisions *)
(* dataclean.py, datacleanup2.py and dataclean_v2.0.py.  One run of the    *)
(* Streamlit script is a chain of steps over the DataFrame df: load_data,  *)
(* the running balance, the transaction grouping and the report tabs.      *)
(*                                                                         *)
(* Text is a sequence of one-character strings, a number is an integer     *)
(* count of hundredths, a timestamp is a count of hours since 1 January.   *)
(***************************************************************************)
EXTENDS Integers, Sequences, FiniteSets, TLC

VARIABLES
    version,        \* which revision of the script runs
    sort_kind,      \* how the build's quicksort orders equal keys
    uploaded_file,  \* the uploaded CSV: columns and raw rows
    pc,             \* the script's position
    df,             \* the DataFrame: a sequence of rows
    columns,        \* df.columns
    warnings,       \* st.warning / st.error messages raised so far
    pivot_table,    \* Report 2's pivot table
    monthly_data,   \* Report 5's monthly buckets
    shown_groups,   \* Transaction Hash -> Group ID as rendered by the previous run
    top_transactions, \* Report 4: the positions in df of the rows it shows, in order
    summary_table   \* the Date-Specific Flow report and the widget values it used

vars == <<version, sort_kind, uploaded_file, pc, df, columns, warnings,
          pivot_table, monthly_data, shown_groups, top_transactions,
          summary_table>>

----------------------------------------------------------------------------
(* Bounds of the model. *)

MaxRows == 3

----------------------------------------------------------------------------
(* Text. *)

NA == <<"<NA>">>          \* a missing value (NaN / None) in an object column
NaN == 99999999           \* np.nan in a float column
NaT == 88888888           \* pd.NaT in a datetime column

S_nan == <<"n", "a", "n">>
S_inflow == <<"i", "n", "f", "l", "o", "w">>
S_outflow == <<"o", "u", "t", "f", "l", "o", "w">>
S_fees == <<"f", "e", "e", "s">>
S_other == <<"o", "t", "h", "e", "r">>
S_fee == <<"f", "e", "e">>
S_gas == <<"g", "a", "s">>
S_transaction_cost ==
    <<"t", "r", "a", "n", "s", "a", "c", "t", "i", "o", "n", " ", "c", "o", "s", "t">>
S_UNKNOWN == <<"U", "N", "K", "N", "O", "W", "N">>

UpperCase ==
    [A |-> "a", B |-> "b", C |-> "c", D |-> "d", E |-> "e", F |-> "f", G |-> "g",
     H |-> "h", I |-> "i", J |-> "j", K |-> "k", L |-> "l", M |-> "m", N |-> "n",
     O |-> "o", P |-> "p", Q |-> "q", R |-> "r", S |-> "s", T |-> "t", U |-> "u",
     V |-> "v", W |-> "w", X |-> "x", Y |-> "y", Z |-> "z"]

\* str.lower()
lower(s) ==
    [i \in 1..Len(s) |-> IF s[i] \in DOMAIN UpperCase THEN UpperCase[s[i]] ELSE s[i]]

\* sub in s
contains(s, sub) ==
    \E i \in 0..(Len(s) - Len(sub)) : SubSeq(s, i + 1, i + Len(sub)) = sub

\* str.strip()
strip(s) ==
    LET keep == {i \in 1..Len(s) : s[i] # " "}
    IN  IF keep = {} THEN <<>>
        ELSE LET lo == CHOOSE i \in keep : \A j \in keep : i <= j
                 hi == CHOOSE i \in keep : \A j \in keep : j <= i
             IN  SubSeq(s, lo, hi)

\* str(value): a missing value prints as 'nan'
str(v) == IF v = NA THEN S_nan ELSE v

\* Series.astype(str): every cell through str()
astype_str(v) == str(v)

\* pd.read_csv on one cell: an empty cell is a missing value
read_cell(raw) == IF raw = <<>> THEN NA ELSE raw

----------------------------------------------------------------------------
(* Numbers.  A float is modelled as an integer count of hundredths, so     *)
(* 1234.56 is 123456; the cells of the model carry at most two decimals.   *)

Digit ==
    [c \in {"0", "1", "2", "3", "4", "5", "6", "7", "8", "9"} |->
        CASE c = "0" -> 0 [] c = "1" -> 1 [] c = "2" -> 2 [] c = "3" -> 3
          [] c = "4" -> 4 [] c = "5" -> 5 [] c = "6" -> 6 [] c = "7" -> 7
          [] c = "8" -> 8 [] c = "9" -> 9]

is_digits(s) == \A i \in 1..Len(s) : s[i] \in DOMAIN Digit

RECURSIVE digits_value(_)
digits_value(s) ==
    IF s = <<>> THEN 0
    ELSE 10 * digits_value(SubSeq(s, 1, Len(s) - 1)) + Digit[s[Len(s)]]

\* the text of an unsigned decimal number, in hundredths; NaN when it is none
unsigned_value(s) ==
    LET dots == {i \in 1..Len(s) : s[i] = "."}
    IN  IF dots = {}
        THEN IF s # <<>> /\ is_digits(s) THEN 100 * digits_value(s) ELSE NaN
        ELSE LET d == CHOOSE i \in dots : TRUE
                 whole == SubSeq(s, 1, d - 1)
                 frac == SubSeq(s, d + 1, Len(s))
             IN  IF /\ Cardinality(dots) = 1
                    /\ is_digits(whole) /\ is_digits(frac)
                    /\ Len(whole) + Len(frac) > 0
                    /\ Len(frac) <= 2
                 THEN 100 * digits_value(whole)
                        + (IF Len(frac) = 1 THEN 10 ELSE 1) * digits_value(frac)
                 ELSE NaN

\* pd.to_numeric(cell, errors='coerce') on one cell of text
to_numeric(cell) ==
    LET t == strip(cell)
        signed == t # <<>> /\ t[1] \in {"-", "+"}
        body == IF signed THEN Tail(t) ELSE t
        v == unsigned_value(body)
    IN  IF lower(t) = S_nan \/ v = NaN THEN NaN
        ELSE IF signed /\ t[1] = "-" THEN 0 - v ELSE v

\* str.replace(r'[$,]', '', regex=True)
replace_currency(s) == SelectSeq(s, LAMBDA c : c \notin {"$", ","})

\* fillna(0)
fillna0(v) == IF v = NaN THEN 0 ELSE v

\* the positions safe_to_numeric reports: NaN after coercion and not blank
conversion_failed(cleaned) == to_numeric(cleaned) = NaN /\ strip(cleaned) # <<>>

\* safe_to_numeric on one cell: the cleaned text, the number returned and
\* whether the cell is reported as a failed conversion
safe_to_numeric(cell) ==
    LET cleaned == replace_currency(astype_str(cell))
    IN  [value |-> fillna0(to_numeric(cleaned)),
         failed |-> conversion_failed(cleaned)]

----------------------------------------------------------------------------
(* Timestamps.  A Timestamp cell is <<month, day, hour>> of one year; the  *)
(* parsed value counts the hours since 1 January 00:00.                    *)

DaysIn == <<31, 28, 31, 30, 31, 30, 31, 31, 30, 31, 30, 31>>

RECURSIVE days_before(_)
days_before(m) == IF m = 1 THEN 0 ELSE days_before(m - 1) + DaysIn[m - 1]

\* pd.to_datetime(cell, errors='coerce') on one cell
to_datetime(cell) ==
    IF Len(cell) # 3 THEN NaT
    ELSE IF /\ cell[1] \in 1..12
            /\ cell[2] \in 1..DaysIn[cell[1]]
            /\ cell[3] \in 0..23
         THEN (days_before(cell[1]) + cell[2] - 1) * 24 + cell[3]
         ELSE NaT

\* Timestamp.date(), as the day of the year counted from 0
date(ts) == ts \div 24

\* the calendar month of a timestamp (resample('M'), dt.to_period('M'))
month(ts) == CHOOSE m \in 1..12 :
    days_before(m) <= date(ts) /\ date(ts) < days_before(m) + DaysIn[m]

----------------------------------------------------------------------------
(* The categorizer. *)

fee_keywords == {S_fee, S_gas, S_transaction_cost}

\* the categorizer with the Event Label compared in the case it was typed in
categorize_cased(direction, event_label) ==
    IF direction = S_inflow THEN S_inflow
    ELSE IF direction = S_outflow
         THEN IF \E fee_keyword \in fee_keywords :
                    contains(str(event_label), fee_keyword)
              THEN S_fees
              ELSE S_outflow
         ELSE S_other

\* dataclean.py and dataclean_v2.0.py: Direction is compared as it is
categorize_exact(direction, event_label) ==
    IF direction = S_inflow THEN S_inflow
    ELSE IF direction = S_outflow
         THEN IF \E fee_keyword \in fee_keywords :
                    contains(lower(str(event_label)), fee_keyword)
              THEN S_fees
              ELSE S_outflow
         ELSE S_other

\* datacleanup2.py: Direction and Event Label are lower-cased first
categorize_lower(direction, event_label) ==
    LET d == lower(str(direction))
        event == lower(str(event_label))
    IN  IF d = S_inflow THEN S_inflow
        ELSE IF d = S_outflow
             THEN IF \E fee_keyword \in fee_keywords : contains(event, fee_keyword)
                  THEN S_fees
                  ELSE S_outflow
             ELSE S_other

categorize_transaction(v, direction, event_label) ==
    IF v = "datacleanup2" THEN categorize_lower(direction, event_label)
    ELSE categorize_exact(direction, event_label)

----------------------------------------------------------------------------
(* Sorting.  kind='quicksort' leaves the order of equal keys to the build: *)
(* "stable" keeps them in input order, "unstable" stands for a build that  *)
(* does not, and returns them in the opposite order.                       *)

SortKinds == {"stable", "unstable"}

\* whether position j comes before position i when keys are sorted ascending
sorts_before(keys, kind, j, i) ==
    \/ keys[j] < keys[i]
    \/ /\ keys[j] = keys[i]
       /\ IF kind = "stable" \/ keys[i] = NaT THEN j < i ELSE j > i

\* the positions of keys in ascending order, missing keys (NaT) last in
\* input order: nargsort(..., kind='quicksort', na_position='last')
argsort(keys, kind) ==
    LET n == Len(keys)
        rank(i) == Cardinality({j \in 1..n : sorts_before(keys, kind, j, i)})
    IN  [k \in 1..n |-> CHOOSE i \in 1..n : rank(i) = k - 1]

\* the rows left in the order of the file
unsorted(rows, kind) == rows

\* DataFrame.sort_values(by='Timestamp', ascending=True).reset_index(drop=True)
sort_values(rows, kind) ==
    LET order == argsort([i \in 1..Len(rows) |-> rows[i].Timestamp], kind)
    IN  [k \in 1..Len(rows) |-> rows[order[k]]]

\* a load that keeps the rows without a Timestamp
keep_na(rows) == rows

\* DataFrame.dropna(subset=['Timestamp'])
dropna(rows) == SelectSeq(rows, LAMBDA r : r.Timestamp # NaT)

----------------------------------------------------------------------------
(* Columns and rows. *)

Timestamp == "Timestamp"
Symbol == "Original Currency Symbol"
Direction == "Direction"
EventLabel == "Event Label"
BalanceImpact == "Balance Impact (T)"
TotalFiat == "Total Fiat Amount ($)"
UnitPrice == "Transfer Unit Fiat Price ($)"
Hash == "Transaction Hash"
TransactionType == "Transaction Type"
RunningBalance == "Running Balance (T)"
BalanceStatus == "Balance Status"
GroupID == "Group ID"
GroupComment == "Group Comment"

InputColumns ==
    {Timestamp, Symbol, Direction, EventLabel, BalanceImpact, TotalFiat, UnitPrice, Hash}

numeric_cols == {UnitPrice, BalanceImpact, TotalFiat}

Versions == {"dataclean", "datacleanup2", "dataclean_v2.0"}

\* the revisions that compute a running balance, and the one that groups
HasRunningBalance(v) == v \in {"datacleanup2", "dataclean_v2.0"}
HasGrouping(v) == v = "dataclean_v2.0"

\* one numeric column of load_data on one cell: the number and whether a
\* warning names the cell
numeric_cell(v, col, cell) ==
    IF v = "dataclean_v2.0"
    THEN safe_to_numeric(cell)
    ELSE LET n == to_numeric(replace_currency(astype_str(cell)))
         IN  [value |-> IF v = "datacleanup2" /\ col = BalanceImpact
                        THEN fillna0(n) ELSE n,
              failed |-> FALSE]

\* the DataFrame row load_data makes of raw row i (0-based index i - 1);
\* a column the file lacks keeps a missing value that nothing reads
load_row(v, cols, raw, i) ==
    LET cell(c) == IF c \in cols THEN read_cell(raw[c]) ELSE NA
        num(c) == IF c \in cols THEN numeric_cell(v, c, cell(c)).value ELSE NaN
    IN  [row |-> i - 1,
         Timestamp |-> IF Timestamp \in cols THEN to_datetime(cell(Timestamp)) ELSE NaT,
         Symbol |-> IF cell(Symbol) = NA THEN S_UNKNOWN ELSE cell(Symbol),
         Direction |-> cell(Direction),
         EventLabel |-> cell(EventLabel),
         BalanceImpact |-> num(BalanceImpact),
         TotalFiat |-> num(TotalFiat),
         UnitPrice |-> num(UnitPrice),
         Hash |-> IF v = "dataclean_v2.0" /\ Hash \in cols
                  THEN strip(astype_str(cell(Hash))) ELSE cell(Hash),
         TransactionType |-> IF Direction \in cols /\ EventLabel \in cols
                             THEN categorize_transaction(v, cell(Direction), cell(EventLabel))
                             ELSE NA,
         RunningBalance |-> NaN,
         BalanceStatus |-> "",
         GroupID |-> <<>>,
         GroupComment |-> ""]

\* the warning safe_to_numeric raises for one column: its first five failed rows
numeric_warning(v, cols, rows, col) ==
    LET failed == {i \in 1..Len(rows) :
                      numeric_cell(v, col, read_cell(rows[i][col])).failed}
        first5 == {i \in failed : Cardinality({j \in failed : j < i}) < 5}
    IN  IF col \in cols /\ failed # {}
        THEN <<[kind |-> "warning", column |-> col, rows |-> {i - 1 : i \in first5}]>>
        ELSE <<>>

\* load_data on a file that parses as CSV
load_data(v, kind, file) ==
    LET cols == file.cols
        loaded == [i \in 1..Len(file.rows) |-> load_row(v, cols, file.rows[i], i)]
        typed == IF Direction \in cols /\ EventLabel \in cols
                 THEN cols \cup {TransactionType} ELSE cols
        kept == IF Timestamp \in cols /\ v \in {"dataclean", "dataclean_v2.0"}
                THEN dropna(loaded) ELSE loaded
        sorted == IF Timestamp \in cols /\ v = "dataclean_v2.0"
                  THEN sort_values(kept, kind) ELSE kept
    IN  [df |-> sorted,
         columns |-> typed,
         warnings |-> numeric_warning(v, cols, file.rows, UnitPrice)
                        \o numeric_warning(v, cols, file.rows, BalanceImpact)
                        \o numeric_warning(v, cols, file.rows, TotalFiat)]

----------------------------------------------------------------------------
(* The running balance. *)

Max(S) == CHOOSE x \in S : \A y \in S : y <= x

\* a cumulative sum that ignores the grouping key
RECURSIVE plain_cumsum(_, _, _)
plain_cumsum(keys, values, n) ==
    IF n = 0 THEN <<>>
    ELSE LET before == plain_cumsum(keys, values, n - 1)
         IN  Append(before, (IF n = 1 THEN 0 ELSE before[n - 1]) + values[n])

\* df.groupby(keys)[values].cumsum(): each row adds its value to the last
\* result of an earlier row with the same key
RECURSIVE groupby_cumsum(_, _, _)
groupby_cumsum(keys, values, n) ==
    IF n = 0 THEN <<>>
    ELSE LET before == groupby_cumsum(keys, values, n - 1)
             same == {j \in 1..(n - 1) : keys[j] = keys[n]}
         IN  Append(before, (IF same = {} THEN 0 ELSE before[Max(same)]) + values[n])

\* the status with zero counted as negative
balance_status_le(x) == IF x # NaN /\ x <= 0 THEN "NEGATIVE" ELSE "OK"

\* lambda x: "NEGATIVE BALANCE" if x < 0 else "OK"
balance_status(x) == IF x # NaN /\ x < 0 THEN "NEGATIVE" ELSE "OK"

\* the Running Balance (T) and Balance Status columns over rows in their order
with_running_balance(rows) ==
    LET n == Len(rows)
        rb == groupby_cumsum([i \in 1..n |-> rows[i].Symbol],
                             [i \in 1..n |-> fillna0(rows[i].BalanceImpact)], n)
    IN  [i \in 1..n |-> [rows[i] EXCEPT !.BalanceImpact = fillna0(@),
                                        !.RunningBalance = rb[i],
                                        !.BalanceStatus = balance_status(rb[i])]]

\* both columns set to one value on every row
without_running_balance(rows, status) ==
    [i \in 1..Len(rows) |-> [rows[i] EXCEPT !.RunningBalance = NaN,
                                            !.BalanceStatus = status]]

----------------------------------------------------------------------------
(* The transaction grouping. *)

RECURSIVE int_str(_)
int_str(n) ==
    LET d == CHOOSE c \in DOMAIN Digit : Digit[c] = n % 10
    IN  IF n < 10 THEN <<d>> ELSE Append(int_str(n \div 10), d)

\* the distinct values of a column, in order of first appearance
unique(values) ==
    LET firsts == {i \in 1..Len(values) : \A j \in 1..(i - 1) : values[j] # values[i]}
        nth(k) == CHOOSE i \in firsts : Cardinality({j \in firsts : j < i}) = k - 1
    IN  [k \in 1..Cardinality(firsts) |-> values[nth(k)]]

count_of(values, h) == Cardinality({i \in 1..Len(values) : values[i] = h})

\* Series.value_counts().index: the distinct values by descending count; the
\* counts are sorted as sort_values(ascending=False) does, reversed, sorted
\* ascending with the build's quicksort and reversed again
value_counts(values, kind) ==
    LET keys == unique(values)
        n == Len(keys)
        reversed == [k \in 1..n |-> count_of(values, keys[n + 1 - k])]
        order == argsort(reversed, kind)
    IN  [k \in 1..n |-> keys[n + 1 - order[n + 1 - k]]]

\* every hash, a hash of a single row included
every_hash(values, kind) == value_counts(values, kind)

\* hash_counts[hash_counts > 1].index
group_hashes(values, kind) ==
    SelectSeq(value_counts(values, kind), LAMBDA h : count_of(values, h) > 1)

\* a map that goes on counting from the ids of the page shown before
group_id_counter(values, kind, h) ==
    LET g == SelectSeq(value_counts(values, kind), LAMBDA x : count_of(values, x) > 1)
        at == {k \in 1..Len(g) : g[k] = h}
        used == Cardinality({sg \in shown_groups : sg[2] # <<>>})
    IN  IF at = {} THEN 0 ELSE used + (CHOOSE k \in at : TRUE)

\* {hash_val: i + 1 for i, hash_val in enumerate(group_hashes)}, as the id
\* of hash h, 0 where the map has no entry (NaN filled with 0)
group_id_map(values, kind, h) ==
    LET g == group_hashes(values, kind)
        at == {k \in 1..Len(g) : g[k] = h}
    IN  IF at = {} THEN 0 ELSE CHOOSE k \in at : TRUE

\* fillna(0).astype(int).astype(str).replace('0', '')
group_id_text(id) == IF int_str(id) = <<"0">> THEN <<>> ELSE int_str(id)

\* the Group ID and Group Comment columns
with_groups(rows, kind) ==
    LET hashes == [i \in 1..Len(rows) |-> rows[i].Hash]
    IN  IF Len(group_hashes(hashes, kind)) > 0
        THEN [i \in 1..Len(rows) |->
                LET id == group_id_map(hashes, kind, rows[i].Hash)
                IN  [rows[i] EXCEPT
                        !.GroupID = group_id_text(id),
                        !.GroupComment = IF id # 0 THEN "Group Transaction"
                                         ELSE "NOT a group transaction"]]
        ELSE [i \in 1..Len(rows) |->
                [rows[i] EXCEPT !.GroupID = <<>>,
                                !.GroupComment = "NOT a group transaction"]]

\* both columns set to one value on every row
without_groups(rows, id, comment) ==
    [i \in 1..Len(rows) |-> [rows[i] EXCEPT !.GroupID = id, !.GroupComment = comment]]

\* Transaction Hash -> Group ID, as a set of pairs, of the rendered table
rendered_groups(rows) == {<<rows[i].Hash, rows[i].GroupID>> : i \in 1..Len(rows)}

----------------------------------------------------------------------------
(* The reports. *)

RECURSIVE sum_over(_, _)
sum_over(f, S) ==
    IF S = {} THEN 0
    ELSE LET x == CHOOSE x \in S : TRUE IN f[x] + sum_over(f, S \ {x})

\* aggfunc='sum' of one column over the rows at positions S, NaN skipped
column_sum(rows, col, S) ==
    sum_over([i \in 1..Len(rows) |-> rows[i][col]],
             {i \in S : rows[i][col] # NaN})

NoPivot == [made |-> FALSE, columns |-> {}, index |-> {}, cell |-> <<>>, net_flow |-> <<>>]

\* df.pivot_table(values='Balance Impact (T)', index='Original Currency Symbol',
\*                columns='Transaction Type', aggfunc='sum', fill_value=0)
pivot(rows) ==
    LET n == Len(rows)
        tokens == {rows[i].Symbol : i \in 1..n}
        types == {rows[i].TransactionType : i \in 1..n}
    IN  [made |-> TRUE,
         columns |-> types,
         index |-> tokens,
         cell |-> [tc \in tokens \X types |->
                     column_sum(rows, "BalanceImpact",
                                {i \in 1..n : /\ rows[i].Symbol = tc[1]
                                              /\ rows[i].TransactionType = tc[2]})],
         net_flow |-> <<>>]

\* pivot_table[col] once datacleanup2.py has added the missing columns as 0.0
pivot_or_zero(p, t, col) == IF col \in p.columns THEN p.cell[<<t, col>>] ELSE 0

\* whether pivot_table['net_flow'] = ... raises KeyError
net_flow_raises(v, p) ==
    v # "datacleanup2" /\ (S_inflow \notin p.columns \/ S_outflow \notin p.columns)

\* pivot_table['net_flow'] of token t
net_flow(v, p, t) ==
    IF v = "datacleanup2"
    THEN pivot_or_zero(p, t, S_inflow) + pivot_or_zero(p, t, S_outflow)
            + pivot_or_zero(p, t, S_fees) + pivot_or_zero(p, t, S_other)
    ELSE p.cell[<<t, S_inflow>>] + p.cell[<<t, S_outflow>>]
            + pivot_or_zero(p, t, S_fees)

NoMonthly == [made |-> FALSE, buckets |-> <<>>]

\* Report 5: dropna(subset=['Timestamp']), resample('M'), size and sum
monthly(rows) ==
    LET timed == {i \in 1..Len(rows) : rows[i].Timestamp # NaT}
        months == {month(rows[i].Timestamp) : i \in timed}
        span == {m \in 1..12 : \E a \in months, b \in months : a <= m /\ m <= b}
        of(m) == {i \in timed : month(rows[i].Timestamp) = m}
    IN  [made |-> TRUE,
         buckets |-> [m \in span |->
                        [transaction_count |-> Cardinality(of(m)),
                         total_fiat_value |-> column_sum(rows, "TotalFiat", of(m))]]]

\* Series.abs()
abs(x) == IF x = NaN THEN NaN ELSE IF x < 0 THEN 0 - x ELSE x

\* Series.argsort() of pandas 2: the values that are not NaN are sorted among
\* themselves and their positions in that shorter array, counted from 0, are
\* written at the places of those values; the place of every NaN gets -1
series_argsort(values, kind) ==
    LET n == Len(values)
        notmask == {i \in 1..n : values[i] # NaN}
        order == argsort(SelectSeq(values, LAMBDA x : x # NaN), kind)
        nth(i) == Cardinality({j \in notmask : j <= i})
    IN  [i \in 1..n |-> IF values[i] = NaN THEN 0 - 1 ELSE order[nth(i)] - 1]

\* the number of rows Report 4 shows
TopN == 10

\* s[:n]
head(s, n) == SubSeq(s, 1, IF Len(s) < n THEN Len(s) ELSE n)

\* df.iloc[p] on n rows: the position of the row for p counted from 0, a
\* negative p counted from the end
iloc(n, p) == IF p < 0 THEN n + p + 1 ELSE p + 1

\* Report 4: df.iloc[(-df['Total Fiat Amount ($)'].abs()).argsort()[:10]]
top10(rows, kind) ==
    LET n == Len(rows)
        negated == [i \in 1..n |-> IF rows[i].TotalFiat = NaN THEN NaN
                                    ELSE 0 - abs(rows[i].TotalFiat)]
        picked == head(series_argsort(negated, kind), TopN)
    IN  [k \in 1..Len(picked) |-> iloc(n, picked[k])]

\* the selectbox option that stands for every token
ALL == <<"A", "L", "L">>

\* the cutoff applied to the hour of the day as well
up_to_midnight(ts, balance_eod_date) == ts # NaT /\ ts <= balance_eod_date * 24

\* df['Timestamp'].dt.date <= balance_eod_date, false for NaT
on_or_before(ts, balance_eod_date) == ts # NaT /\ date(ts) <= balance_eod_date

NoSummary ==
    [made |-> FALSE, selected_token |-> <<>>, balance_eod_date |-> 0, rows |-> {},
     table |-> <<>>]

\* a Net Balance that adds inflow, outflow and fees only
flow_without_other(rows, selected_token, balance_eod_date) ==
    LET mask == {i \in 1..Len(rows) :
                    /\ selected_token = ALL \/ rows[i].Symbol = selected_token
                    /\ on_or_before(rows[i].Timestamp, balance_eod_date)}
        of(t, type) == {i \in mask : rows[i].Symbol = t /\ rows[i].TransactionType = type}
        total(t, type) == column_sum(rows, "BalanceImpact", of(t, type))
    IN  [made |-> TRUE,
         selected_token |-> selected_token,
         balance_eod_date |-> balance_eod_date,
         rows |-> mask,
         table |-> [t \in {rows[i].Symbol : i \in mask} |->
                      [inflow |-> total(t, S_inflow),
                       outflow |-> total(t, S_outflow),
                       fees |-> total(t, S_fees),
                       net_balance |-> total(t, S_inflow) + total(t, S_outflow)
                                          + total(t, S_fees)]]]

\* the Date-Specific Flow report: the rows on or before the date, of the
\* selected token or of all, and per token the sums by Transaction Type
\* with Net Balance = inflow + outflow + fees + other
date_specific_flow(rows, selected_token, balance_eod_date) ==
    LET mask == {i \in 1..Len(rows) :
                    /\ selected_token = ALL \/ rows[i].Symbol = selected_token
                    /\ on_or_before(rows[i].Timestamp, balance_eod_date)}
        of(t, type) == {i \in mask : rows[i].Symbol = t /\ rows[i].TransactionType = type}
        total(t, type) == column_sum(rows, "BalanceImpact", of(t, type))
    IN  [made |-> TRUE,
         selected_token |-> selected_token,
         balance_eod_date |-> balance_eod_date,
         rows |-> mask,
         table |-> [t \in {rows[i].Symbol : i \in mask} |->
                      [inflow |-> total(t, S_inflow),
                       outflow |-> total(t, S_outflow),
                       fees |-> total(t, S_fees),
                       net_balance |-> total(t, S_inflow) + total(t, S_outflow)
                                          + total(t, S_fees) + total(t, S_other)]]]

\* the dates st.date_input is set to: the date of a row, or the default of
\* a table without dates
date_input(rows) ==
    LET dates == {date(rows[i].Timestamp) :
                    i \in {j \in 1..Len(rows) : rows[j].Timestamp # NaT}}
    IN  IF dates = {} THEN {0} ELSE dates

----------------------------------------------------------------------------
(* One run of the script. *)

\* the step after `step` in revision v; dataclean.py ends with its third
\* tab and dataclean_v2.0.py with its fourth in the source at hand
next_step(v, step) ==
    CASE step = "load" -> IF HasRunningBalance(v) THEN "running_balance" ELSE "tab1"
      [] step = "running_balance" -> IF HasGrouping(v) THEN "grouping" ELSE "tab1"
      [] step = "grouping" -> "tab1"
      [] step = "tab1" -> "tab2"
      [] step = "tab2" -> "tab3"
      [] step = "tab3" -> IF v = "dataclean" THEN "done" ELSE "tab4"
      [] step = "tab4" -> IF v = "datacleanup2" THEN "tab5" ELSE "done"
      [] step = "tab5" -> "tab6"
      [] step = "tab6" -> "done"

\* a script that goes on with an empty table
go_on_if_empty(v, rows) == next_step(v, "load")

\* if df.empty: st.stop()
stop_if_empty(v, rows) == IF rows = <<>> THEN "stopped" ELSE next_step(v, "load")

Message(kind, column) == [kind |-> kind, column |-> column, rows |-> {}]

\* uploaded_file is None / df = load_data(uploaded_file) / df.empty
Load ==
    /\ pc = "load"
    /\ IF uploaded_file.kind = "none"
       THEN /\ pc' = "stopped"
            /\ UNCHANGED <<df, columns, warnings>>
       ELSE IF uploaded_file.kind = "malformed"
       THEN /\ pc' = stop_if_empty(version, <<>>)
            /\ df' = <<>>
            /\ columns' = {}
            /\ warnings' = Append(warnings, Message("fatal", ""))
       ELSE \E r \in {load_data(version, sort_kind, uploaded_file)} :
                /\ df' = r.df
                /\ columns' = r.columns
                /\ warnings' = warnings \o r.warnings
                /\ pc' = stop_if_empty(version, r.df)
    /\ UNCHANGED <<version, sort_kind, uploaded_file, pivot_table, monthly_data,
                   shown_groups,
                   top_transactions, summary_table>>

\* the running balance calculation
RunningBalanceStep ==
    /\ pc = "running_balance"
    /\ IF Timestamp \in columns /\ BalanceImpact \in columns
       THEN IF Symbol \in columns
            THEN /\ df' = with_running_balance(
                            IF version = "datacleanup2"
                            THEN sort_values(df, sort_kind) ELSE df)
                 /\ columns' = columns \cup {RunningBalance, BalanceStatus}
                 /\ warnings' = warnings
                 /\ pc' = next_step(version, "running_balance")
            ELSE \* groupby raises KeyError
                 IF version = "datacleanup2"
                 THEN /\ df' = sort_values(df, sort_kind)
                      /\ pc' = "crashed"
                      /\ UNCHANGED <<columns, warnings>>
                 ELSE /\ df' = without_running_balance(df, "Calculation Failed")
                      /\ columns' = columns \cup {RunningBalance, BalanceStatus}
                      /\ warnings' = Append(warnings, Message("error", RunningBalance))
                      /\ pc' = next_step(version, "running_balance")
       ELSE IF version = "datacleanup2"
            THEN /\ warnings' = Append(warnings, Message("error", RunningBalance))
                 /\ pc' = next_step(version, "running_balance")
                 /\ UNCHANGED <<df, columns>>
            ELSE /\ df' = without_running_balance(df, "Feature Disabled")
                 /\ columns' = columns \cup {RunningBalance, BalanceStatus}
                 /\ warnings' = Append(warnings, Message("warning", RunningBalance))
                 /\ pc' = next_step(version, "running_balance")
    /\ UNCHANGED <<version, sort_kind, uploaded_file, pivot_table, monthly_data,
                   shown_groups,
                   top_transactions, summary_table>>

\* the transaction grouping logic
GroupingStep ==
    /\ pc = "grouping"
    /\ IF Hash \in columns
       THEN /\ df' = with_groups(df, sort_kind)
            /\ warnings' = warnings
       ELSE /\ df' = without_groups(df, <<"D", "i", "s", "a", "b", "l", "e", "d">>,
                                    "Feature Disabled")
            /\ warnings' = Append(warnings, Message("warning", Hash))
    /\ columns' = columns \cup {GroupID, GroupComment}
    /\ pc' = next_step(version, "grouping")
    /\ UNCHANGED <<version, sort_kind, uploaded_file, pivot_table, monthly_data,
                   shown_groups,
                   top_transactions, summary_table>>

\* Tab 1, Data Overview: NaT.strftime raises ValueError, which only
\* dataclean_v2.0.py catches
Tab1 ==
    /\ pc = "tab1"
    /\ pc' = IF /\ version # "dataclean_v2.0"
                /\ Timestamp \in columns
                /\ \A i \in 1..Len(df) : df[i].Timestamp = NaT
             THEN "crashed" ELSE next_step(version, "tab1")
    /\ UNCHANGED <<version, sort_kind, uploaded_file, df, columns, warnings,
                   pivot_table, monthly_data, shown_groups,
                   top_transactions, summary_table>>

\* Report 1 with the selection assigned to the record set instead of a copy
Tab2_in_place ==
    /\ pc = "tab2"
    /\ Symbol \in columns
    /\ \E selected_currency \in {df[i].Symbol : i \in 1..Len(df)} :
           df' = SelectSeq(df, LAMBDA r : r.Symbol = selected_currency)
    /\ pc' = next_step(version, "tab2")
    /\ UNCHANGED <<version, sort_kind, uploaded_file, columns, warnings,
                   pivot_table, monthly_data, shown_groups,
                   top_transactions, summary_table>>

\* Tab 2, Report 1: the currency filter works on a copy of the selected rows
Tab2 ==
    /\ pc = "tab2"
    /\ IF Symbol \in columns
       THEN \E selected_currency \in {df[i].Symbol : i \in 1..Len(df)} :
                /\ pc' = next_step(version, "tab2")
                /\ warnings' = warnings
       ELSE IF version = "datacleanup2"
            THEN /\ pc' = next_step(version, "tab2")
                 /\ warnings' = Append(warnings, Message("warning", Symbol))
            ELSE /\ pc' = "crashed"
                 /\ warnings' = warnings
    /\ UNCHANGED <<version, sort_kind, uploaded_file, df, columns, pivot_table,
                   monthly_data, shown_groups,
                   top_transactions, summary_table>>

\* Tab 3, Report 2: the net-flow pivot
Tab3 ==
    /\ pc = "tab3"
    /\ IF TransactionType \in columns /\ BalanceImpact \in columns
       THEN IF Symbol \notin columns
            THEN /\ pc' = "crashed"
                 /\ UNCHANGED <<pivot_table, warnings>>
            ELSE \E p \in {pivot(df)} :
                     IF net_flow_raises(version, p)
                     THEN /\ pivot_table' = p
                          /\ pc' = "crashed"
                          /\ warnings' = warnings
                     ELSE /\ pivot_table' =
                                [p EXCEPT !.net_flow =
                                    [t \in p.index |-> net_flow(version, p, t)]]
                          /\ pc' = next_step(version, "tab3")
                          /\ warnings' = warnings
       ELSE /\ warnings' = Append(warnings, Message("warning", TransactionType))
            /\ pc' = next_step(version, "tab3")
            /\ UNCHANGED pivot_table
    /\ UNCHANGED <<version, sort_kind, uploaded_file, df, columns, monthly_data,
                   shown_groups,
                   top_transactions, summary_table>>

\* Tab 4, Report 3: the running-balance view works on a copy of the selected rows
Tab4 ==
    /\ pc = "tab4"
    /\ pc' = next_step(version, "tab4")
    /\ warnings' =
         IF version = "datacleanup2" /\ ~(RunningBalance \in columns /\ Timestamp \in columns)
         THEN Append(warnings, Message("error", RunningBalance))
         ELSE warnings
    /\ UNCHANGED <<version, sort_kind, uploaded_file, df, columns, pivot_table,
                   monthly_data, shown_groups,
                   top_transactions, summary_table>>

\* Tab 5, Suggested Analytics: Report 5 names the column 'Timestamp' in agg()
\* after set_index('Timestamp') has made it the index, and asks for the
\* frequency 'M'; whether that raises depends on the pandas build
Tab5 ==
    /\ pc = "tab5"
    /\ IF Timestamp \in columns /\ TotalFiat \in columns
       THEN \E raises \in BOOLEAN :
                IF raises
                THEN /\ pc' = "crashed"
                     /\ UNCHANGED monthly_data
                ELSE /\ monthly_data' = monthly(df)
                     /\ pc' = next_step(version, "tab5")
       ELSE /\ pc' = next_step(version, "tab5")
            /\ UNCHANGED monthly_data
    /\ top_transactions' =
         IF TotalFiat \in columns THEN top10(df, sort_kind) ELSE top_transactions
    /\ UNCHANGED <<version, sort_kind, uploaded_file, df, columns, warnings,
                   pivot_table, shown_groups, summary_table>>

\* Tab 6, Date-Specific Flow: reads df['Original Currency Symbol'] unguarded
\* for the token selectbox, then reports for the token and the date chosen
Tab6 ==
    /\ pc = "tab6"
    /\ IF Symbol \notin columns
       THEN /\ pc' = "crashed"
            /\ UNCHANGED <<warnings, summary_table>>
       ELSE \E selected_token \in {ALL} \cup {df[i].Symbol : i \in 1..Len(df)},
               balance_eod_date \in date_input(df) :
                /\ pc' = next_step(version, "tab6")
                /\ IF /\ Timestamp \in columns
                      /\ TransactionType \in columns
                      /\ BalanceImpact \in columns
                   THEN /\ summary_table' =
                              date_specific_flow(df, selected_token, balance_eod_date)
                        /\ warnings' = warnings
                   ELSE /\ warnings' = Append(warnings, Message("error", Timestamp))
                        /\ UNCHANGED summary_table
    /\ UNCHANGED <<version, sort_kind, uploaded_file, df, columns, pivot_table,
                   monthly_data, shown_groups, top_transactions>>

\* a widget interaction: Streamlit runs the script again from the top on the
\* same upload, and the page of the run before is replaced
Rerun ==
    /\ pc \in {"done", "crashed", "stopped"}
    /\ pc' = "load"
    /\ df' = <<>>
    /\ columns' = {}
    /\ warnings' = <<>>
    /\ pivot_table' = NoPivot
    /\ monthly_data' = NoMonthly
    /\ shown_groups' = IF GroupID \in columns THEN rendered_groups(df) ELSE {}
    /\ top_transactions' = <<>>
    /\ summary_table' = NoSummary
    /\ UNCHANGED <<version, sort_kind, uploaded_file>>

Next ==
    \/ Load
    \/ RunningBalanceStep
    \/ GroupingStep
    \/ Tab1
    \/ Tab2
    \/ Tab3
    \/ Tab4
    \/ Tab5
    \/ Tab6
    \/ Rerun

----------------------------------------------------------------------------
(* The uploads the model draws from. *)

NoFile == [kind |-> "none", cols |-> {}, rows |-> <<>>]
Malformed == [kind |-> "malformed", cols |-> {}, rows |-> <<>>]

\* one raw CSV row: the text of each cell, <<>> for an empty cell
raw_row(ts, sym, dir, label, impact, fiat, price, hash) ==
    (Timestamp :> ts) @@ (Symbol :> sym) @@ (Direction :> dir)
        @@ (EventLabel :> label) @@ (BalanceImpact :> impact)
        @@ (TotalFiat :> fiat) @@ (UnitPrice :> price) @@ (Hash :> hash)

\* the sequences of 0..n elements of S
RECURSIVE seqs_up_to(_, _)
seqs_up_to(S, n) ==
    IF n = 0 THEN {<<>>}
    ELSE LET shorter == seqs_up_to(S, n - 1)
         IN  shorter \cup {Append(q, x) : q \in {r \in shorter : Len(r) = n - 1}, x \in S}

\* the files with all input columns and up to n rows drawn from row_set
csv_files(row_set, n) ==
    {[kind |-> "csv", cols |-> InputColumns, rows |-> rows] :
        rows \in seqs_up_to(row_set, n)}

InitWith(versions, kinds, files) ==
    /\ version \in versions
    /\ sort_kind \in kinds
    /\ uploaded_file \in {NoFile, Malformed} \cup files
    /\ pc = "load"
    /\ df = <<>>
    /\ columns = {}
    /\ warnings = <<>>
    /\ pivot_table = NoPivot
    /\ monthly_data = NoMonthly
    /\ shown_groups = {}
    /\ top_transactions = <<>>
    /\ summary_table = NoSummary

Jan31_23h == <<1, 31, 23>>
Feb01_00h == <<2, 1, 0>>
Feb30 == <<2, 30, 0>>
Tok_A == <<"A">>
Tok_B == <<"B">>
L_Deposit == <<"D", "e", "p", "o", "s", "i", "t">>
L_Transfer == <<"T", "r", "a", "n", "s", "f", "e", "r">>
L_Gas_Fee == <<"G", "a", "s", " ", "F", "e", "e">>
D_swap == <<"s", "w", "a", "p">>
N_5 == <<"5">>
N_minus5 == <<"-", "5">>
N_minus3 == <<"-", "3">>
N_minus4 == <<"-", "4">>
N_2 == <<"2">>
N_1234_56 == <<"$", "1", ",", "2", "3", "4", ".", "5", "6">>
H_1 == <<"0", "x", "a">>
H_2 == <<"0", "x", "b">>

\* Spec: ledgers whose rows differ in time, token and signed impact
BalanceRows ==
    {raw_row(ts, sym, f[1], f[2], f[3], N_1234_56, <<>>, H_1) :
        ts \in {Jan31_23h, Feb01_00h, Feb30},
        sym \in {Tok_A, Tok_B},
        f \in {<<S_inflow, L_Deposit, N_5>>, <<S_outflow, L_Transfer, N_minus5>>}}

Init == InitWith({"datacleanup2", "dataclean_v2.0"}, SortKinds, csv_files(BalanceRows, MaxRows))

Spec == Init /\ [][Next]_vars

\* SpecFlow: ledgers whose rows differ in time, token and transaction type
FlowRows ==
    {raw_row(ts, sym, f[1], f[2], f[3], N_1234_56, <<>>, H_1) :
        ts \in {Jan31_23h, Feb01_00h},
        sym \in {Tok_A, Tok_B},
        f \in {<<S_inflow, L_Deposit, N_5>>, <<S_outflow, L_Transfer, N_minus3>>,
               <<S_outflow, L_Gas_Fee, N_minus4>>, <<D_swap, L_Transfer, N_2>>}}

InitFlow == InitWith(Versions, {"stable"}, csv_files(FlowRows, MaxRows))

SpecFlow == InitFlow /\ [][Next]_vars

N_abc == <<"a", "b", "c">>
Blank == <<" ", " ">>

\* SpecNum: ledgers whose rows differ in the text of their numeric cells
NumericRows ==
    {raw_row(Jan31_23h, Tok_A, S_inflow, L_Deposit, impact, fiat, <<>>, H_1) :
        impact \in {N_1234_56, N_abc, <<>>, Blank},
        fiat \in {N_5, N_abc, <<>>}}

InitNum ==
    InitWith({"datacleanup2", "dataclean_v2.0"}, {"stable"}, csv_files(NumericRows, MaxRows))

SpecNum == InitNum /\ [][Next]_vars

D_Inflow == <<"I", "n", "f", "l", "o", "w">>
L_GAS == <<"G", "A", "S">>
L_Fee == <<"F", "e", "e">>
L_Transaction_Cost ==
    <<"T", "r", "a", "n", "s", "a", "c", "t", "i", "o", "n", " ", "C", "o", "s", "t">>

\* SpecCat: ledgers whose rows differ in Direction and Event Label
CategoryRows ==
    {raw_row(Jan31_23h, Tok_A, dir, label, N_5, N_5, <<>>, H_1) :
        dir \in {S_inflow, S_outflow, D_swap, <<>>, D_Inflow},
        label \in {L_GAS, L_Fee, L_Transaction_Cost, L_Transfer, <<>>}}

InitCat == InitWith(Versions, {"stable"}, csv_files(CategoryRows, MaxRows - 1))

SpecCat == InitCat /\ [][Next]_vars

H_1_padded == <<" ", "0", "x", "a", " ">>

\* SpecGrp: ledgers whose rows differ in Transaction Hash
GroupRows ==
    {raw_row(Jan31_23h, Tok_A, S_inflow, L_Deposit, N_5, N_5, <<>>, hash) :
        hash \in {H_1, H_1_padded, H_2, Blank, <<>>}}

InitGrp ==
    InitWith({"datacleanup2", "dataclean_v2.0"}, SortKinds, csv_files(GroupRows, MaxRows + 1))

SpecGrp == InitGrp /\ [][Next]_vars

----------------------------------------------------------------------------
(* Properties of the running balance. *)

\* the running balance has been computed: both columns exist and carry
\* neither of the markers of a disabled or failed computation
BalanceComputed ==
    /\ RunningBalance \in columns
    /\ \A i \in 1..Len(df) :
          df[i].BalanceStatus \notin {"Feature Disabled", "Calculation Failed"}

Timed(i) == df[i].Timestamp # NaT

\* the rows of row i's token at or before it in ascending-timestamp order
AtOrBefore(i) ==
    {j \in 1..Len(df) :
        /\ df[j].Symbol = df[i].Symbol
        /\ \/ df[j].Timestamp < df[i].Timestamp
           \/ df[j].Timestamp = df[i].Timestamp /\ j <= i}

\* C1: once the running balance is computed, the Running Balance (T) of every
\* row with a parsed timestamp is the sum of Balance Impact (T) over the rows
\* of its own token at or before it in ascending-timestamp order, whatever
\* rows of other tokens lie between them.
RunningBalanceIsPrefixSum ==
    BalanceComputed =>
        \A i \in 1..Len(df) :
            Timed(i) =>
                df[i].RunningBalance =
                    sum_over([j \in 1..Len(df) |-> df[j].BalanceImpact], AtOrBefore(i))

\* a computed balance of a token's later row with a row of another token,
\* of non-zero impact, between it and the token's earlier row
RunningBalanceInterleaved ==
    /\ BalanceComputed
    /\ \E i, j, k \in 1..Len(df) :
          /\ i < j /\ j < k
          /\ Timed(i) /\ Timed(j) /\ Timed(k)
          /\ df[i].Timestamp < df[k].Timestamp
          /\ df[i].Symbol = df[k].Symbol /\ df[j].Symbol # df[i].Symbol
          /\ df[j].BalanceImpact # 0
          /\ df[k].RunningBalance = df[i].BalanceImpact + df[k].BalanceImpact

\* C2: once the running balance is computed, a row's Balance Status is the
\* NEGATIVE marker exactly when its Running Balance (T) is below zero and OK
\* otherwise, zero included.
StatusFollowsBalance ==
    BalanceComputed =>
        \A i \in 1..Len(df) :
            /\ df[i].BalanceStatus \in {"NEGATIVE", "OK"}
            /\ df[i].BalanceStatus = "NEGATIVE" <=> df[i].RunningBalance < 0

\* a computed table with a balance of exactly zero marked OK next to a
\* negative one marked NEGATIVE
StatusAtZeroAndBelow ==
    /\ BalanceComputed
    /\ \E i, j \in 1..Len(df) :
          /\ df[i].RunningBalance = 0 /\ df[i].BalanceStatus = "OK"
          /\ df[j].RunningBalance < 0 /\ df[j].BalanceStatus = "NEGATIVE"

\* C10: a row whose Timestamp did not parse receives no Running Balance,
\* changes the Running Balance of no other row and is counted in no
\* monthly bucket.
UnparseableRowsExcluded ==
    /\ BalanceComputed =>
          \A i \in 1..Len(df) :
              IF Timed(i)
              THEN df[i].RunningBalance =
                      sum_over([j \in 1..Len(df) |-> df[j].BalanceImpact],
                               {j \in AtOrBefore(i) : Timed(j)})
              ELSE df[i].RunningBalance = NaN
    /\ monthly_data.made =>
          sum_over([m \in DOMAIN monthly_data.buckets |->
                       monthly_data.buckets[m].transaction_count],
                   DOMAIN monthly_data.buckets)
             = Cardinality({i \in 1..Len(df) : Timed(i)})

----------------------------------------------------------------------------
(* Properties of the net-flow pivot. *)

\* the sum of Balance Impact (T) over the rows of token t with type c
CategorySum(t, c) ==
    sum_over([i \in 1..Len(df) |-> df[i].BalanceImpact],
             {i \in 1..Len(df) : df[i].Symbol = t /\ df[i].TransactionType = c})

Tokens == {df[i].Symbol : i \in 1..Len(df)}

\* Report 2 has run on a record set with the columns it asks for
PivotRan ==
    /\ TransactionType \in columns /\ BalanceImpact \in columns
    /\ pc \in {"tab4", "tab5", "tab6", "done"} \/ pivot_table.made

\* C5: the net-flow pivot is produced without failure and gives every token
\* the net flow inflow + outflow + fees + other, a type without rows
\* counting as 0 and the impact of 'other' rows included.
NetFlowSumsAllTypes ==
    PivotRan =>
        /\ pivot_table.made
        /\ DOMAIN pivot_table.net_flow = Tokens
        /\ \A t \in Tokens :
              pivot_table.net_flow[t] =
                  CategorySum(t, S_inflow) + CategorySum(t, S_outflow)
                    + CategorySum(t, S_fees) + CategorySum(t, S_other)

\* the last row of token t in the sorted record set
LastRowOf(t) == Max({i \in 1..Len(df) : df[i].Symbol = t})

\* C6: for every token, the net flow of the pivot equals the Running
\* Balance (T) of the token's last row in timestamp order.
NetFlowReconciles ==
    (BalanceComputed /\ DOMAIN pivot_table.net_flow = Tokens) =>
        \A t \in Tokens :
            pivot_table.net_flow[t] = df[LastRowOf(t)].RunningBalance

----------------------------------------------------------------------------
(* Properties of load_data. *)

\* load_data has run on a CSV file
Loaded == pc \notin {"load", "stopped"} /\ uploaded_file.kind = "csv"

\* the cells of the uploaded row that df row k was made of
RawOf(k) == uploaded_file.rows[df[k].row + 1]

\* a warning of column col names the uploaded row of df row k
Warned(col, k) ==
    \E w \in 1..Len(warnings) :
        /\ warnings[w].kind = "warning"
        /\ warnings[w].column = col
        /\ df[k].row \in warnings[w].rows

\* C4: in dataclean_v2.0.py the cell '$1,234.56' loads as 1234.56 without a
\* warning, the cell 'abc' loads as 0.0 and a warning names its row, and an
\* empty cell loads as 0.0 and no warning names its row.
NumericFallbackPolicy ==
    (Loaded /\ version = "dataclean_v2.0") =>
        \A k \in 1..Len(df) :
            /\ RawOf(k)[BalanceImpact] = N_1234_56 =>
                  df[k].BalanceImpact = 123456 /\ ~Warned(BalanceImpact, k)
            /\ RawOf(k)[BalanceImpact] = N_abc =>
                  df[k].BalanceImpact = 0 /\ Warned(BalanceImpact, k)
            /\ RawOf(k)[BalanceImpact] = <<>> =>
                  df[k].BalanceImpact = 0 /\ ~Warned(BalanceImpact, k)
            /\ RawOf(k)[TotalFiat] = N_abc =>
                  df[k].TotalFiat = 0 /\ Warned(TotalFiat, k)
            /\ RawOf(k)[TotalFiat] = <<>> =>
                  df[k].TotalFiat = 0 /\ ~Warned(TotalFiat, k)

\* the Event Labels of the uploads that name a fee, gas or a transaction cost
FeeLabels == {L_GAS, L_Fee, L_Transaction_Cost, L_Gas_Fee}

----------------------------------------------------------------------------
(* Properties of the transaction grouping. *)

\* the grouping has run on a record set that has a Transaction Hash column
GroupsAssigned == GroupID \in columns /\ Hash \in columns

\* the rows that carry the cleaned Transaction Hash of row i
SameHash(i) == {j \in 1..Len(df) : df[j].Hash = df[i].Hash}

\* C7: a row has a non-empty Group ID and the comment 'Group Transaction'
\* exactly when its cleaned Transaction Hash occurs in two or more rows;
\* every other row has an empty Group ID and the comment 'NOT a group
\* transaction'.
GroupedIffHashShared ==
    GroupsAssigned =>
        \A i \in 1..Len(df) :
            IF Cardinality(SameHash(i)) >= 2
            THEN df[i].GroupID # <<>> /\ df[i].GroupComment = "Group Transaction"
            ELSE df[i].GroupID = <<>> /\ df[i].GroupComment = "NOT a group transaction"

\* a grouped pair whose hashes differ only in the spaces around them, next
\* to a row that is alone with its hash and not grouped
GroupedPairAndSingle ==
    /\ GroupsAssigned
    /\ \E i, j, k \in 1..Len(df) :
          /\ RawOf(i)[Hash] = H_1 /\ RawOf(j)[Hash] = H_1_padded
          /\ df[i].GroupID # <<>> /\ df[j].GroupID = df[i].GroupID
          /\ RawOf(k)[Hash] = H_2 /\ df[k].GroupID = <<>>
          /\ df[k].GroupComment = "NOT a group transaction"

\* C8: a row whose Transaction Hash is absent or blank is never put in a
\* group.
EmptyHashNeverGrouped ==
    GroupsAssigned =>
        \A i \in 1..Len(df) :
            RawOf(i)[Hash] \in {<<>>, Blank} =>
                df[i].GroupID = <<>> /\ df[i].GroupComment = "NOT a group transaction"

\* C9: two rows carry the same non-empty Group ID exactly when they carry
\* the same Transaction Hash, and a rerun on the same upload shows every
\* hash with the Group ID it had on the page before.
GroupIdsOneToOneAndRepeatable ==
    GroupsAssigned =>
        /\ \A i, j \in 1..Len(df) :
              i # j =>
                  ((df[i].GroupID # <<>> /\ df[i].GroupID = df[j].GroupID)
                      <=> df[i].Hash = df[j].Hash)
        /\ shown_groups # {} => rendered_groups(df) = shown_groups

\* a rerun that has grouped again, with two groups of different ids on the
\* page and on the page before
TwoGroupsShownAgain ==
    /\ GroupsAssigned
    /\ shown_groups # {}
    /\ \E i, j \in 1..Len(df) :
          /\ df[i].GroupID # <<>> /\ df[j].GroupID # <<>>
          /\ df[i].GroupID # df[j].GroupID

----------------------------------------------------------------------------
(* Properties of the numeric columns and of letter case. *)

\* C11: after load_data every cell of a numeric column the file has is a
\* finite number, an unparseable or empty cell being 0.0 and never NaN, in
\* the two fiat columns as in Balance Impact (T).
NumericCellsFinite ==
    Loaded =>
        \A k \in 1..Len(df) :
            /\ BalanceImpact \in columns => df[k].BalanceImpact # NaN
            /\ TotalFiat \in columns => df[k].TotalFiat # NaN
            /\ UnitPrice \in columns => df[k].UnitPrice # NaN

\* C12: two rows whose Direction and whose Event Label differ only in
\* letter case get the same Transaction Type.
CategorizationIgnoresCase ==
    (Loaded /\ TransactionType \in columns) =>
        \A i, j \in 1..Len(df) :
            (/\ lower(RawOf(i)[Direction]) = lower(RawOf(j)[Direction])
             /\ lower(RawOf(i)[EventLabel]) = lower(RawOf(j)[EventLabel]))
                => df[i].TransactionType = df[j].TransactionType

----------------------------------------------------------------------------
(* The Date-Specific Flow report. *)

\* SpecSnap: ledgers of token A with the four kinds of flow on two days, of
\* token B with inflows, and a row whose Timestamp does not parse
SnapshotRows ==
    {r \in FlowRows : r[Symbol] = Tok_A \/ r[Direction] = S_inflow}
        \cup {raw_row(Feb30, Tok_A, S_inflow, L_Deposit, N_5, N_5, <<>>, H_1)}

InitSnap ==
    InitWith({"datacleanup2", "dataclean_v2.0"}, {"stable"}, csv_files(SnapshotRows, MaxRows))

SpecSnap == InitSnap /\ [][Next]_vars

\* the tokens the report is asked for
SnapshotScope ==
    IF summary_table.selected_token = ALL THEN Tokens ELSE {summary_table.selected_token}

\* the rows of token t dated on or before the date the report was asked for
DatedUpTo(t) ==
    {i \in 1..Len(df) :
        /\ Timed(i)
        /\ date(df[i].Timestamp) <= summary_table.balance_eod_date
        /\ df[i].Symbol = t}

\* the sum of Balance Impact (T) over the rows at positions S
ImpactSum(S) == sum_over([i \in 1..Len(df) |-> df[i].BalanceImpact], S)

\* C13: the Date-Specific Flow report aggregates exactly the rows dated on
\* or before the cutoff, the cutoff day included, of the selected token or
\* of every token; per token its inflow, outflow and fees are the sums over
\* those rows by type and its net balance is the sum over all of them,
\* which is inflow + outflow + fees + other.
SnapshotAggregatesSubset ==
    summary_table.made =>
        /\ summary_table.rows = UNION {DatedUpTo(t) : t \in SnapshotScope}
        /\ DOMAIN summary_table.table = {t \in SnapshotScope : DatedUpTo(t) # {}}
        /\ \A t \in DOMAIN summary_table.table :
              LET typed(c) == {i \in DatedUpTo(t) : df[i].TransactionType = c}
                  line == summary_table.table[t]
              IN  /\ line.inflow = ImpactSum(typed(S_inflow))
                  /\ line.outflow = ImpactSum(typed(S_outflow))
                  /\ line.fees = ImpactSum(typed(S_fees))
                  /\ line.net_balance = ImpactSum(DatedUpTo(t))
                  /\ line.net_balance = line.inflow + line.outflow + line.fees
                                           + ImpactSum(typed(S_other))

\* a report for token A as of 31 January that counts an 'other' row of the
\* last hour of that day, leaves out a row of token A of the next day and
\* is asked on a ledger that also has token B
SnapshotCutsAtEndOfDay ==
    /\ summary_table.made
    /\ summary_table.selected_token = Tok_A
    /\ \E i, j, k \in 1..Len(df) :
          /\ RawOf(i)[Timestamp] = Jan31_23h /\ df[i].TransactionType = S_other
          /\ i \in summary_table.rows
          /\ df[j].Symbol = Tok_A /\ RawOf(j)[Timestamp] = Feb01_00h
          /\ j \notin summary_table.rows
          /\ df[k].Symbol = Tok_B
          /\ summary_table.table[Tok_A].net_balance = df[i].BalanceImpact

----------------------------------------------------------------------------
(* Report 4, the ten largest transactions. *)

\* one row of a ledger of token A with the given Total Fiat Amount ($) cell
fiat_row(fiat) == raw_row(Jan31_23h, Tok_A, S_inflow, L_Deposit, N_5, fiat, <<>>, H_1)

\* eight rows that every ledger of SpecTop starts with
LedgerBody ==
    <<fiat_row(N_5), fiat_row(N_minus5), fiat_row(N_2), fiat_row(N_5),
      fiat_row(N_minus5), fiat_row(N_2), fiat_row(N_5), fiat_row(N_minus5)>>

\* SpecTop: ledgers of eight to eleven rows, the last ones with any of four
\* Total Fiat Amount ($) cells
TopFiles ==
    {[kind |-> "csv", cols |-> InputColumns, rows |-> LedgerBody \o more] :
        more \in seqs_up_to({fiat_row(N_5), fiat_row(N_minus5), fiat_row(N_2),
                             fiat_row(<<>>)}, MaxRows)}

InitTop == InitWith({"datacleanup2", "dataclean_v2.0"}, SortKinds, TopFiles)

SpecTop == InitTop /\ [][Next]_vars

\* the magnitude Report 4 ranks row i by, a cell without a number being 0.0
Magnitude(i) == abs(fillna0(df[i].TotalFiat))

\* the positions of df that Report 4 shows
Shown == {top_transactions[k] : k \in 1..Len(top_transactions)}

\* C14: Report 4 shows min(10, number of rows) different rows in
\* descending order of abs(Total Fiat Amount ($)); no row left out has a
\* larger magnitude than a row shown; rows of equal magnitude are shown,
\* and cut off, in the order they have in the record set.
TopTenByMagnitude ==
    top_transactions # <<>> =>
        /\ Len(top_transactions) = IF Len(df) < TopN THEN Len(df) ELSE TopN
        /\ Cardinality(Shown) = Len(top_transactions)
        /\ \A k, l \in 1..Len(top_transactions) :
              k < l =>
                  /\ Magnitude(top_transactions[k]) >= Magnitude(top_transactions[l])
                  /\ Magnitude(top_transactions[k]) = Magnitude(top_transactions[l])
                        => top_transactions[k] < top_transactions[l]
        /\ \A i \in (1..Len(df)) \ Shown :
              \A j \in Shown :
                  /\ Magnitude(i) <= Magnitude(j)
                  /\ Magnitude(i) = Magnitude(j) => j < i

----------------------------------------------------------------------------
(* Files that lack a column. *)

\* SpecCols: ledgers of one token with inflows and outflows on two days, in
\* files that lack at most one of the input columns
ColumnRows ==
    {raw_row(ts, Tok_A, f[1], f[2], f[3], N_5, <<>>, H_1) :
        ts \in {Jan31_23h, Feb01_00h},
        f \in {<<S_inflow, L_Deposit, N_5>>, <<S_outflow, L_Transfer, N_minus5>>}}

ColumnFiles ==
    {[kind |-> "csv", cols |-> cols, rows |-> rows] :
        cols \in {InputColumns} \cup {InputColumns \ {c} : c \in InputColumns},
        rows \in seqs_up_to(ColumnRows, MaxRows - 1)}

InitCols == InitWith({"datacleanup2", "dataclean_v2.0"}, {"stable"}, ColumnFiles)

SpecCols == InitCols /\ [][Next]_vars

\* the upload is a CSV file that lacks an input column
ColumnMissing == uploaded_file.kind = "csv" /\ uploaded_file.cols # InputColumns

\* the upload has an inflow row and an outflow row
BothDirections ==
    \E i, j \in 1..Len(uploaded_file.rows) :
        /\ uploaded_file.rows[i][Direction] = S_inflow
        /\ uploaded_file.rows[j][Direction] = S_outflow

\* C15: a run on a file that lacks an input column never aborts: load_data,
\* the core processing and the reports go on, the features that need the
\* column being disabled.
MissingColumnNeverAborts ==
    (ColumnMissing /\ BothDirections) =>
        /\ pc # "crashed"
        /\ (pc # "load" /\ uploaded_file.rows # <<>>) => pc # "stopped"

\* the running balance has been passed on a file that lacks one of the two
\* columns it needs
BalanceColumnsMissing ==
    /\ uploaded_file.kind = "csv"
    /\ Timestamp \notin uploaded_file.cols \/ BalanceImpact \notin uploaded_file.cols
    /\ pc \notin {"load", "running_balance", "stopped"}

\* C16: when Timestamp or Balance Impact (T) is absent no row gets a
\* numeric Running Balance (T), every row's Balance Status is the marker
\* 'Feature Disabled', and the grouping and the reports still run.
BalanceDisabledMarker ==
    (BalanceColumnsMissing /\ BothDirections) =>
        /\ \A i \in 1..Len(df) :
              /\ df[i].RunningBalance = NaN
              /\ df[i].BalanceStatus = "Feature Disabled"
        /\ BalanceStatus \in columns
        /\ pc # "crashed"
        /\ (HasGrouping(version) /\ pc # "grouping") => GroupID \in columns

----------------------------------------------------------------------------
(* A file that is no table, and the order of the stages. *)

\* a fatal message has been shown
FatalShown == \E w \in 1..Len(warnings) : warnings[w].kind = "fatal"

\* C17: on a file that cannot be parsed load_data returns an empty record
\* set and shows a fatal message, and the run stops there: no running
\* balance, no grouping and no report is made, and nothing crashes.
MalformedFileStops ==
    uploaded_file.kind = "malformed" =>
        /\ pc \in {"load", "stopped"}
        /\ df = <<>> /\ columns = {}
        /\ pc = "stopped" => FatalShown
        /\ ~pivot_table.made /\ ~monthly_data.made /\ ~summary_table.made
        /\ top_transactions = <<>>

\* a run on a malformed file that has stopped after the fatal message
MalformedFileStopped ==
    /\ uploaded_file.kind = "malformed"
    /\ pc = "stopped"
    /\ FatalShown
    /\ df = <<>>

\* the uploaded rows in the order the record set has them
RowOrder == [i \in 1..Len(df) |-> df[i].row]

\* the rows with a Timestamp come first, in ascending order of it
Ascending ==
    \A i, j \in 1..Len(df) :
        (i < j /\ Timed(j)) => (Timed(i) /\ df[i].Timestamp <= df[j].Timestamp)

\* every Running Balance (T) is the sum over the rows of the same token at
\* or above it in the record set
SummedInRowOrder ==
    \A i \in 1..Len(df) :
        df[i].RunningBalance =
            ImpactSum({j \in 1..i : df[j].Symbol = df[i].Symbol})

\* C18: whenever a running balance has been computed the record set is in
\* ascending timestamp order and the balances were summed in that order,
\* and no later step of the run changes the order of the rows.
SortedBeforeBalance ==
    /\ [](BalanceComputed => (Ascending /\ SummedInRowOrder))
    /\ [][(BalanceComputed /\ pc' # "load") => RowOrder' = RowOrder]_vars

\* a finished run whose upload had a later row above an earlier one
SortedLedgerFinished ==
    /\ BalanceComputed
    /\ pc = "done"
    /\ \E i, j \in 1..Len(df) :
          /\ i < j
          /\ df[i].Timestamp < df[j].Timestamp /\ Timed(j)
          /\ df[i].row > df[j].row
          /\ df[i].Symbol = df[j].Symbol

\* C19: the temporal sort is stable: once sorted, the rows are in ascending
\* timestamp order and two rows with the same Timestamp are in the order
\* they had in the uploaded file.
TemporalSortIsStable ==
    BalanceComputed =>
        /\ Ascending
        /\ \A i, j \in 1..Len(df) :
              (i < j /\ Timed(i) /\ df[i].Timestamp = df[j].Timestamp)
                  => df[i].row < df[j].row

----------------------------------------------------------------------------
(* The numbering of the groups. *)

H_3 == <<"0", "x", "c">>

\* SpecOrd: ledgers of up to five rows with three hashes
OrderRows ==
    {raw_row(Jan31_23h, Tok_A, S_inflow, L_Deposit, N_5, N_5, <<>>, hash) :
        hash \in {H_1, H_2, H_3}}

InitOrd ==
    InitWith({"datacleanup2", "dataclean_v2.0"}, SortKinds, csv_files(OrderRows, MaxRows + 2))

SpecOrd == InitOrd /\ [][Next]_vars

\* the first row of the record set that carries the hash of row i
FirstOf(i) == CHOOSE j \in SameHash(i) : \A k \in SameHash(i) : j <= k

\* the rows that open a group: the first row of a hash that occurs again
GroupOpeners == {i \in 1..Len(df) : FirstOf(i) = i /\ Cardinality(SameHash(i)) >= 2}

\* C20: Group IDs follow first-encounter order: the hash of the k-th row
\* that opens a group, scanning the record set from the top, has Group ID
\* k, so that the ids in use are 1..number of groups.
GroupIdsInEncounterOrder ==
    GroupsAssigned =>
        \A i \in GroupOpeners :
            df[i].GroupID = int_str(Cardinality({j \in GroupOpeners : j <= i}))

----------------------------------------------------------------------------
(* The reports and the shared record set. *)

\* the steps of a run that render a report tab
ReportSteps == {"tab1", "tab2", "tab3", "tab4", "tab5", "tab6"}

\* C21: once load, running balance and grouping have completed, no report
\* changes the shared record set: whatever the report and the choice made
\* in its widgets, the rows, their order, their values and the columns are
\* after the report what they were before it.
ReportsLeaveRecordSet ==
    [][(pc \in ReportSteps) => (df' = df /\ columns' = columns)]_vars

\* a run of datacleanup2 that rendered every report on a ledger of several
\* tokens, with the balances computed before them
AllReportsRendered ==
    /\ version = "datacleanup2"
    /\ pc = "done"
    /\ BalanceComputed
    /\ Cardinality(Tokens) >= 2
    /\ pivot_table.made
    /\ top_transactions # <<>>
    /\ summary_table.made
    /\ summary_table.selected_token # ALL

----------------------------------------------------------------------------
(* The as-of-date balance and the running balance. *)

\* the report was asked for one token, on a ledger of datacleanup2 whose
\* timestamps all parse and whose running balance was computed
SingleTokenSnapshot ==
    /\ version = "datacleanup2"
    /\ BalanceComputed
    /\ summary_table.made
    /\ summary_table.selected_token # ALL
    /\ \A i \in 1..Len(df) : Timed(i)

\* C22: in datacleanup2, when every timestamp parses, the net balance the
\* as-of-date report shows for a token equals the Running Balance (T) of the
\* last row of that token, in the order of the record set, whose date is on
\* or before the cutoff; a token without such a row gets no balance but the
\* notice that there is no data.
SnapshotAgreesWithRunningBalance ==
    SingleTokenSnapshot =>
        LET t == summary_table.selected_token
        IN  IF DatedUpTo(t) = {}
            THEN DOMAIN summary_table.table = {}
            ELSE /\ DOMAIN summary_table.table = {t}
                 /\ summary_table.table[t].net_balance
                        = df[Max(DatedUpTo(t))].RunningBalance

\* the cutoff falls between rows of the selected token: rows of more than
\* one type are in, a later row is out, and the running balance went on
SnapshotWithinTokenHistory ==
    /\ SingleTokenSnapshot
    /\ LET t == summary_table.selected_token
       IN  /\ Cardinality(DatedUpTo(t)) >= 2
           /\ \E i \in DatedUpTo(t) : df[i].TransactionType = S_other
           /\ LastRowOf(t) \notin DatedUpTo(t)
           /\ df[LastRowOf(t)].RunningBalance # summary_table.table[t].net_balance

----------------------------------------------------------------------------
(* Row conservation. *)

\* the uploaded rows, by their 0-based index in the file
InputRows == {i - 1 : i \in 1..Len(uploaded_file.rows)}

\* the uploaded rows whose Timestamp cell parses
ParsedRows ==
    {i - 1 : i \in {j \in 1..Len(uploaded_file.rows) :
                      to_datetime(read_cell(uploaded_file.rows[j][Timestamp])) # NaT}}

\* the uploaded rows the record set was made of
SurvivingRows == {df[k].row : k \in 1..Len(df)}

\* the number written in a Balance Impact (T) cell of a balance ledger
WrittenAmount(cell) == IF cell = N_5 THEN 500 ELSE IF cell = N_minus5 THEN 0 - 500 ELSE NaN

\* C23: load_data and the sort never add, duplicate or merge rows: the
\* record set of datacleanup2 is a permutation of the uploaded rows, the
\* rows whose Timestamp does not parse kept with a null Timestamp; that of
\* dataclean_v2.0 is a permutation of exactly the uploaded rows whose
\* Timestamp parses; the Balance Impact (T), the currency symbol and the
\* hash of every row of the record set are those of the uploaded row it was
\* made of, after normalization.
PipelineConservesRows ==
    (uploaded_file.kind = "csv" /\ pc # "load") =>
        /\ \A i, j \in 1..Len(df) : df[i].row = df[j].row => i = j
        /\ version = "datacleanup2" =>
              /\ SurvivingRows = InputRows
              /\ Len(df) = Len(uploaded_file.rows)
              /\ \A k \in 1..Len(df) : Timed(k) <=> df[k].row \in ParsedRows
        /\ version = "dataclean_v2.0" =>
              /\ SurvivingRows = ParsedRows
              /\ \A k \in 1..Len(df) : Timed(k)
        /\ \A k \in 1..Len(df) :
              /\ df[k].BalanceImpact = WrittenAmount(RawOf(k)[BalanceImpact])
              /\ df[k].BalanceImpact # NaN
              /\ df[k].Symbol = RawOf(k)[Symbol]
              /\ df[k].Hash = RawOf(k)[Hash]

\* a finished run of dataclean_v2.0 on three rows: one without a date was
\* dropped and the other two, of different amounts, changed places
DroppedAndReordered ==
    /\ version = "dataclean_v2.0"
    /\ pc = "done"
    /\ Len(uploaded_file.rows) = 3
    /\ Len(df) = 2
    /\ df[1].row > df[2].row
    /\ df[1].BalanceImpact # df[2].BalanceImpact
    /\ df[1].Symbol # df[2].Symbol

====
